---- MODULE Spec2Model ----
(***************************************************************************)
(* Trace-driven set-associative cache simulator (csim), main.cpp.          *)
(* The dirty-bit-aware main (lines 17-196) is modelled statement by        *)
(* statement: argument validation, cache construction, the per-access loop *)
(* body (address decomposition, lookup scan, load/store branches) and the  *)
(* final statistics output.                                                *)
(***************************************************************************)
EXTENDS Integers, Sequences, FiniteSets, TLC

(* ---------------- bounds of the exploration ---------------- *)
MaxSets == 3          \* numSets argument ranges over -1..MaxSets
MaxBlocksPerSet == 2  \* blocksPerSet argument ranges over -1..MaxBlocksPerSet
MaxBlockSize == 8     \* blockSize argument ranges over -1..MaxBlockSize
MaxAddr == 8          \* trace addresses are the word addresses in 0..MaxAddr
MaxByteAddr == 47     \* byte addresses 0..MaxByteAddr where the address decomposition is examined
MaxTrace == 4         \* number of trace lines read before end of input

(* ---------------- program constants ---------------- *)
\* ULONG_MAX of <climits>; the checker's integers stop at 2^31-1, which is
\* used in its place: every lastUsed of a bounded run is far below it.
ULONG_MAX == 2147483647

SizeArgs(max) == (-1)..max
AllocArgs  == {"write-allocate", "no-write-allocate"}
WriteArgs  == {"write-through", "write-back"}
EvictArgs  == {"lru", "fifo"}
Ops        == {"l", "s"}
Addrs      == {a \in 0..MaxAddr : a % 4 = 0}

(* ---------------- integer helpers of the C++ expressions ---------------- *)
RECURSIVE Pow2(_)
Pow2(k) == IF k = 0 THEN 1 ELSE 2 * Pow2(k - 1)

\* a & b on non-negative ints
RECURSIVE BitAnd(_, _)
BitAnd(a, b) ==
  IF a = 0 \/ b = 0 THEN 0
  ELSE (IF a % 2 = 1 /\ b % 2 = 1 THEN 1 ELSE 0) + 2 * BitAnd(a \div 2, b \div 2)

\* variant: the mask test n & (n - 1) left out
isPowerOfTwoNoMask(n) == n > 0

\* the lambda of line 34; && short-circuits, so & only sees n > 0
isPowerOfTwo(n) == n > 0 /\ BitAnd(n, n - 1) = 0

\* (unsigned) log2(n) for n >= 1: the double is truncated toward zero
RECURSIVE log2(_)
log2(n) == IF n <= 1 THEN 0 ELSE 1 + log2(n \div 2)

\* a >> k on unsigned
ShiftRight(a, k) == a \div Pow2(k)

(* ---------------- state ---------------- *)
VARIABLES
  cfg,          \* argv[1..6]: numSets, blocksPerSet, blockSize, writeAlloc, writePolicy, evictPolicy
  pc,           \* "start" | "run" | "error" | "done"
  cache,        \* vector<vector<CacheLine>>, <<>> while not constructed
  stats,        \* the seven counters of lines 61-67
  timeCounter,  \* line 68
  output,       \* what was written to cout, <<>> while nothing was
  hist,         \* one record per processed trace line (observation of the run)
  twin          \* a second run of the same program on the same trace, other eviction policy

vars == <<cfg, pc, cache, stats, timeCounter, output, hist, twin>>

CacheLine == [valid |-> FALSE, dirty |-> FALSE, tag |-> 0, lastUsed |-> 0]

ZeroStats == [totalLoads |-> 0, totalStores |-> 0, loadHits |-> 0, loadMisses |-> 0,
              storeHits |-> 0, storeMisses |-> 0, cycles |-> 0]

\* vector<vector<CacheLine>> cache(numSets, vector<CacheLine>(blocksPerSet))
NewCache(c) == [s \in 0..(c.numSets - 1) |-> [i \in 0..(c.blocksPerSet - 1) |-> CacheLine]]

isWriteAlloc(c) == c.writeAlloc = "write-allocate"
useLRU(c) == c.evictPolicy = "lru"

\* lines 35-50: TRUE when none of the three checks returns 1
ConfigAccepted(c) ==
  /\ ~(~isPowerOfTwo(c.numSets) \/ ~isPowerOfTwo(c.blocksPerSet) \/ ~isPowerOfTwo(c.blockSize))
  /\ ~(c.blockSize < 4)
  /\ ~(c.writeAlloc = "no-write-allocate" /\ c.writePolicy = "write-back")

(* ---------------- the loop body, lines 76-184 ---------------- *)
blockOffsetBits(c) == log2(c.blockSize)
setBits(c) == log2(c.numSets)
\* variant: the block offset bits are not shifted out before masking
SetIndexOfNoShift(c, addr) == BitAnd(addr, Pow2(setBits(c)) - 1)

SetIndexOf(c, addr) == BitAnd(ShiftRight(addr, blockOffsetBits(c)), Pow2(setBits(c)) - 1)
\* variant: only the block offset bits are shifted out
TagOfNoSetBits(c, addr) == ShiftRight(addr, blockOffsetBits(c))

TagOf(c, addr) == ShiftRight(addr, blockOffsetBits(c) + setBits(c))

ScanStart == [hit |-> FALSE, hitIndex |-> -1, emptyIndex |-> -1, evictIndex |-> 0,
              oldestTime |-> ULONG_MAX]

\* variant: the tag of the last line of the set is not compared
RECURSIVE ScanSkipLastTag(_, _, _, _, _)
ScanSkipLastTag(set, tag, n, i, lk) ==
  IF i >= n THEN lk
  ELSE IF i < n - 1 /\ set[i].valid /\ set[i].tag = tag
       THEN [lk EXCEPT !.hit = TRUE, !.hitIndex = i]
       ELSE LET l1 == IF ~set[i].valid /\ lk.emptyIndex = -1
                      THEN [lk EXCEPT !.emptyIndex = i] ELSE lk
                l2 == IF set[i].lastUsed < l1.oldestTime
                      THEN [l1 EXCEPT !.oldestTime = set[i].lastUsed, !.evictIndex = i]
                      ELSE l1
            IN ScanSkipLastTag(set, tag, n, i + 1, l2)

\* variant: emptyIndex is overwritten by every invalid line met
RECURSIVE ScanLastEmpty(_, _, _, _, _)
ScanLastEmpty(set, tag, n, i, lk) ==
  IF i >= n THEN lk
  ELSE IF set[i].valid /\ set[i].tag = tag
       THEN [lk EXCEPT !.hit = TRUE, !.hitIndex = i]
       ELSE LET l1 == IF ~set[i].valid
                      THEN [lk EXCEPT !.emptyIndex = i] ELSE lk
                l2 == IF set[i].lastUsed < l1.oldestTime
                      THEN [l1 EXCEPT !.oldestTime = set[i].lastUsed, !.evictIndex = i]
                      ELSE l1
            IN ScanLastEmpty(set, tag, n, i + 1, l2)

\* the for loop of lines 91-112, from index i on, with the locals in lk
RECURSIVE Scan(_, _, _, _, _)
Scan(set, tag, n, i, lk) ==
  IF i >= n THEN lk
  ELSE IF set[i].valid /\ set[i].tag = tag
       THEN [lk EXCEPT !.hit = TRUE, !.hitIndex = i]
       ELSE LET l1 == IF ~set[i].valid /\ lk.emptyIndex = -1
                      THEN [lk EXCEPT !.emptyIndex = i] ELSE lk
                l2 == IF set[i].lastUsed < l1.oldestTime
                      THEN [l1 EXCEPT !.oldestTime = set[i].lastUsed, !.evictIndex = i]
                      ELSE l1
            IN Scan(set, tag, n, i + 1, l2)

Lookup(c, set, tag) == Scan(set, tag, c.blocksPerSet, 0, ScanStart)

FetchCost(c) == 100 * (c.blockSize \div 4)

\* int target = (emptyIndex != -1) ? emptyIndex : evictIndex;
TargetOf(lk) == IF lk.emptyIndex # -1 THEN lk.emptyIndex ELSE lk.evictIndex

\* variant: the victim's dirty bit is not consulted
EvictPenaltyAnyVictim(c, set, lk) ==
  IF lk.emptyIndex = -1 /\ c.writePolicy = "write-back"
  THEN FetchCost(c) ELSE 0

\* lines 131-133 and 162-164: cycles added for writing back the victim
EvictPenalty(c, set, lk) ==
  IF lk.emptyIndex = -1 /\ c.writePolicy = "write-back" /\ set[lk.evictIndex].dirty
  THEN FetchCost(c) ELSE 0

\* variant: loadHits++ left out
LoadHitNoCount(c, s, si, lk) ==
  [s EXCEPT !.stats.cycles = @ + 1,
            !.cache[si][lk.hitIndex].lastUsed = IF useLRU(c) THEN s.timeCounter ELSE @]

\* variant: a load hit never refreshes lastUsed
LoadHitNoRefresh(c, s, si, lk) ==
  [s EXCEPT !.stats.loadHits = @ + 1,
            !.stats.cycles = @ + 1]

\* variant: a load hit refreshes lastUsed under either policy
LoadHitAlwaysRefresh(c, s, si, lk) ==
  [s EXCEPT !.stats.loadHits = @ + 1,
            !.stats.cycles = @ + 1,
            !.cache[si][lk.hitIndex].lastUsed = s.timeCounter]

\* variant: a load hit takes back a miss counted for the block
LoadHitUndoMiss(c, s, si, lk) ==
  [s EXCEPT !.stats.loadHits = @ + 1,
            !.stats.loadMisses = @ - 1,
            !.stats.cycles = @ + 1,
            !.cache[si][lk.hitIndex].lastUsed = IF useLRU(c) THEN s.timeCounter ELSE @]

\* s is [cache, stats, timeCounter] with timeCounter already incremented (line 113)
\* lines 118-123
LoadHit(c, s, si, lk) ==
  [s EXCEPT !.stats.loadHits = @ + 1,
            !.stats.cycles = @ + 1,
            !.cache[si][lk.hitIndex].lastUsed = IF useLRU(c) THEN s.timeCounter ELSE @]

\* variant: the install stamps lastUsed only under lru
LoadMissStampLruOnly(c, s, si, tag, lk) ==
  LET set == s.cache[si]
      target == TargetOf(lk)
  IN [s EXCEPT !.stats.loadMisses = @ + 1,
               !.stats.cycles = @ + FetchCost(c) + 1 + EvictPenalty(c, set, lk),
               !.cache[si][target] = [valid |-> TRUE, dirty |-> FALSE, tag |-> tag,
                                      lastUsed |-> IF useLRU(c) THEN s.timeCounter
                                                   ELSE set[target].lastUsed]]

\* variant: the fetch is charged without the extra cycle
LoadMissNoExtraCycle(c, s, si, tag, lk) ==
  LET set == s.cache[si]
      target == TargetOf(lk)
  IN [s EXCEPT !.stats.loadMisses = @ + 1,
               !.stats.cycles = @ + FetchCost(c) + EvictPenalty(c, set, lk),
               !.cache[si][target] = [valid |-> TRUE, dirty |-> FALSE, tag |-> tag,
                                      lastUsed |-> s.timeCounter]]

\* variant: the install leaves the dirty bit of the line as it was
LoadMissKeepDirty(c, s, si, tag, lk) ==
  LET set == s.cache[si]
      target == TargetOf(lk)
  IN [s EXCEPT !.stats.loadMisses = @ + 1,
               !.stats.cycles = @ + FetchCost(c) + 1 + EvictPenalty(c, set, lk),
               !.cache[si][target] = [valid |-> TRUE, dirty |-> set[target].dirty,
                                      tag |-> tag, lastUsed |-> s.timeCounter]]

\* lines 124-139
LoadMiss(c, s, si, tag, lk) ==
  LET set == s.cache[si]
      target == TargetOf(lk)
  IN [s EXCEPT !.stats.loadMisses = @ + 1,
               !.stats.cycles = @ + FetchCost(c) + 1 + EvictPenalty(c, set, lk),
               !.cache[si][target] = [valid |-> TRUE, dirty |-> FALSE, tag |-> tag,
                                      lastUsed |-> s.timeCounter]]

\* variant: a store hit never refreshes lastUsed
StoreHitNoRefresh(c, s, si, lk) ==
  LET wt == c.writePolicy = "write-through"
  IN [s EXCEPT !.stats.storeHits = @ + 1,
               !.stats.cycles = @ + (IF wt THEN 1 + 100 ELSE 1),
               !.cache[si][lk.hitIndex].dirty = IF wt THEN @ ELSE TRUE]

\* variant: a store hit costs one cycle whatever the write policy
StoreHitFlatCost(c, s, si, lk) ==
  LET wt == c.writePolicy = "write-through"
  IN [s EXCEPT !.stats.storeHits = @ + 1,
               !.stats.cycles = @ + 1,
               !.cache[si][lk.hitIndex].dirty = IF wt THEN @ ELSE TRUE,
               !.cache[si][lk.hitIndex].lastUsed = IF useLRU(c) THEN s.timeCounter ELSE @]

\* variant: a store hit refreshes lastUsed under either policy
StoreHitAlwaysRefresh(c, s, si, lk) ==
  LET wt == c.writePolicy = "write-through"
  IN [s EXCEPT !.stats.storeHits = @ + 1,
               !.stats.cycles = @ + (IF wt THEN 1 + 100 ELSE 1),
               !.cache[si][lk.hitIndex].dirty = IF wt THEN @ ELSE TRUE,
               !.cache[si][lk.hitIndex].lastUsed = s.timeCounter]

\* lines 142-152
StoreHit(c, s, si, lk) ==
  LET wt == c.writePolicy = "write-through"
  IN [s EXCEPT !.stats.storeHits = @ + 1,
               !.stats.cycles = @ + (IF wt THEN 1 + 100 ELSE 1),
               !.cache[si][lk.hitIndex].dirty = IF wt THEN @ ELSE TRUE,
               !.cache[si][lk.hitIndex].lastUsed = IF useLRU(c) THEN s.timeCounter ELSE @]

\* variant: a store miss without allocation is charged a block fetch
StoreMissFetchCost(c, s, si, tag, lk) ==
  LET set == s.cache[si]
      target == TargetOf(lk)
      wt == c.writePolicy = "write-through"
  IN IF isWriteAlloc(c)
     THEN [s EXCEPT !.stats.storeMisses = @ + 1,
                    !.stats.cycles = @ + FetchCost(c) + EvictPenalty(c, set, lk)
                                       + (IF wt THEN 1 + 100 ELSE 1),
                    !.cache[si][target] = [valid |-> TRUE, dirty |-> ~wt, tag |-> tag,
                                           lastUsed |-> s.timeCounter]]
     ELSE [s EXCEPT !.stats.storeMisses = @ + 1,
                    !.stats.cycles = @ + FetchCost(c)]

\* lines 153-182
StoreMiss(c, s, si, tag, lk) ==
  LET set == s.cache[si]
      target == TargetOf(lk)
      wt == c.writePolicy = "write-through"
  IN IF isWriteAlloc(c)
     THEN [s EXCEPT !.stats.storeMisses = @ + 1,
                    !.stats.cycles = @ + FetchCost(c) + EvictPenalty(c, set, lk)
                                       + (IF wt THEN 1 + 100 ELSE 1),
                    !.cache[si][target] = [valid |-> TRUE, dirty |-> ~wt, tag |-> tag,
                                           lastUsed |-> s.timeCounter]]
     ELSE [s EXCEPT !.stats.storeMisses = @ + 1,
                    !.stats.cycles = @ + 100]

\* one iteration of the while loop of line 76 on trace line (op, addr)
LoopBody(c, s, op, addr) ==
  LET si == SetIndexOf(c, addr)
      tag == TagOf(c, addr)
      lk == Lookup(c, s.cache[si], tag)
      s1 == [s EXCEPT !.timeCounter = @ + 1]
  IN IF op = "l"
     THEN LET s2 == [s1 EXCEPT !.stats.totalLoads = @ + 1]
          IN IF lk.hit THEN LoadHit(c, s2, si, lk) ELSE LoadMiss(c, s2, si, tag, lk)
     ELSE IF op = "s"
     THEN LET s2 == [s1 EXCEPT !.stats.totalStores = @ + 1]
          IN IF lk.hit THEN StoreHit(c, s2, si, lk) ELSE StoreMiss(c, s2, si, tag, lk)
     ELSE s1

\* variant: the first line printed is the load hits instead of the total loads
ReportHitsForLoads(st) == <<st.loadHits, st.totalStores, st.loadHits, st.loadMisses,
                            st.storeHits, st.storeMisses, st.cycles>>

\* lines 187-193
Report(st) == <<st.totalLoads, st.totalStores, st.loadHits, st.loadMisses,
                st.storeHits, st.storeMisses, st.cycles>>

(* ---------------- observation of one processed access ---------------- *)
\* s is the state before the iteration, r the state after it
Observe(c, s, op, addr, r) ==
  LET si == SetIndexOf(c, addr)
      tag == TagOf(c, addr)
      lk == Lookup(c, s.cache[si], tag)
  IN [op |-> op, addr |-> addr, setIndex |-> si, tag |-> tag,
      hit |-> lk.hit, target |-> IF lk.hit THEN lk.hitIndex ELSE TargetOf(lk),
      before |-> s.cache, after |-> r.cache,
      statsBefore |-> s.stats, statsAfter |-> r.stats,
      cost |-> r.stats.cycles - s.stats.cycles, t |-> r.timeCounter]

OtherPolicy(c) == [c EXCEPT !.evictPolicy = IF @ = "lru" THEN "fifo" ELSE "lru"]

NoTwin == [cache |-> <<>>, stats |-> ZeroStats, timeCounter |-> 0, hist |-> <<>>]

(* ---------------- actions ---------------- *)
Init ==
  /\ cfg \in [numSets : SizeArgs(MaxSets), blocksPerSet : SizeArgs(MaxBlocksPerSet),
              blockSize : SizeArgs(MaxBlockSize), writeAlloc : AllocArgs,
              writePolicy : WriteArgs, evictPolicy : EvictArgs]
  /\ pc = "start"
  /\ cache = <<>>
  /\ stats = ZeroStats
  /\ timeCounter = 0
  /\ output = <<>>
  /\ hist = <<>>
  /\ twin = NoTwin

\* lines 35-68, the part that touches the run's own state
Construct ==
  /\ pc = "start"
  /\ IF ConfigAccepted(cfg)
     THEN /\ pc' = "run"
          /\ cache' = NewCache(cfg)
     ELSE /\ pc' = "error"
          /\ cache' = cache
  /\ UNCHANGED <<cfg, stats, timeCounter, output, hist>>

\* one trace line read and processed
Step(op, addr) ==
  /\ pc = "run"
  /\ LET s == [cache |-> cache, stats |-> stats, timeCounter |-> timeCounter]
     IN \E r \in {LoopBody(cfg, s, op, addr)} :
          /\ cache' = r.cache
          /\ stats' = r.stats
          /\ timeCounter' = r.timeCounter
          /\ hist' = Append(hist, Observe(cfg, s, op, addr, r))
  /\ UNCHANGED <<cfg, pc, output>>

\* the same, for traces of at most MaxTrace lines
Process(op, addr) == Len(hist) < MaxTrace /\ Step(op, addr)

\* end of input: lines 187-195
Emit ==
  /\ pc = "run"
  /\ pc' = "done"
  /\ output' = Report(stats)
  /\ UNCHANGED <<cfg, cache, stats, timeCounter, hist>>

Validate == Construct /\ UNCHANGED twin
Access == \E op \in Ops, addr \in Addrs : Process(op, addr) /\ UNCHANGED twin
Finish == Emit /\ UNCHANGED twin

Next == Validate \/ Access \/ Finish

Spec == Init /\ [][Next]_vars

\* the program keeps executing: it reads the next trace line or meets the end
\* of the input, nothing blocks it
LiveTrace == MaxTrace - 2
AccessLive ==
  \E op \in Ops, addr \in Addrs : Len(hist) < LiveTrace /\ Step(op, addr) /\ UNCHANGED twin
NextLive == Validate \/ AccessLive \/ Finish
SpecLive == Init /\ [][NextLive]_vars /\ WF_vars(NextLive)

(* ---------------- the loop alone, from an accepted configuration ---------------- *)
\* the runs whose arguments pass every test of lines 35-68: the cache is built
\* and the loop of lines 76-184 runs; the rejected command lines are left out
InitLoop ==
  /\ Init
  /\ ConfigAccepted(cfg)
NextLoop == Validate \/ Access \/ Finish
SpecLoop == InitLoop /\ [][NextLoop]_vars

(* ---------------- two runs side by side, lru and fifo ---------------- *)
InitPair == Init /\ cfg.evictPolicy = "lru"

ValidatePair ==
  /\ Construct
  /\ twin' = IF ConfigAccepted(OtherPolicy(cfg))
             THEN [twin EXCEPT !.cache = NewCache(OtherPolicy(cfg))] ELSE twin

AccessPair ==
  \E op \in Ops, addr \in Addrs :
    /\ Process(op, addr)
    /\ LET s == [cache |-> twin.cache, stats |-> twin.stats, timeCounter |-> twin.timeCounter]
       IN \E r \in {LoopBody(OtherPolicy(cfg), s, op, addr)} :
            twin' = [cache |-> r.cache, stats |-> r.stats, timeCounter |-> r.timeCounter,
                     hist |-> Append(twin.hist, Observe(OtherPolicy(cfg), s, op, addr, r))]

FinishPair == Emit /\ UNCHANGED twin

NextPair == ValidatePair \/ AccessPair \/ FinishPair

SpecPair == InitPair /\ [][NextPair]_vars

(* ---------------- two loads at arbitrary byte addresses ---------------- *)
\* the policies play no part in lines 78-83: one legal combination is enough
InitAddr ==
  /\ Init
  /\ cfg.writeAlloc = "write-allocate" /\ cfg.writePolicy = "write-back"
  /\ cfg.evictPolicy = "lru"

AccessAddr ==
  \E addr \in 0..MaxByteAddr : Len(hist) < 2 /\ Step("l", addr) /\ UNCHANGED twin

NextAddr == Validate \/ AccessAddr \/ Finish

SpecAddr == InitAddr /\ [][NextAddr]_vars

(* ---------------- the second main, lines 212-326 ---------------- *)
\* struct CacheLine of lines 206-210: no dirty bit
SimpLine == [valid |-> FALSE, tag |-> 0, lastUsed |-> 0]

\* line 245
SimpNewCache(c) == [s \in 0..(c.numSets - 1) |-> [i \in 0..(c.blocksPerSet - 1) |-> SimpLine]]

SimpScanStart == [hit |-> FALSE, emptyIndex |-> -1, evictIndex |-> 0, oldestTime |-> ULONG_MAX]

\* the for loop of lines 269-280 from index i on; t is timeCounter before its
\* increment of line 281; the loop writes the hit line's lastUsed itself
RECURSIVE SimpScan(_, _, _, _, _, _, _)
SimpScan(set, tag, n, i, lk, lru, t) ==
  IF i >= n THEN [lk |-> lk, set |-> set]
  ELSE IF set[i].valid /\ set[i].tag = tag
       THEN [lk |-> [lk EXCEPT !.hit = TRUE],
             set |-> IF lru THEN [set EXCEPT ![i].lastUsed = t] ELSE set]
       ELSE LET l1 == IF ~set[i].valid /\ lk.emptyIndex = -1
                      THEN [lk EXCEPT !.emptyIndex = i] ELSE lk
                l2 == IF set[i].lastUsed < l1.oldestTime
                      THEN [l1 EXCEPT !.oldestTime = set[i].lastUsed, !.evictIndex = i]
                      ELSE l1
            IN SimpScan(set, tag, n, i + 1, l2, lru, t)

\* lines 292-295 and 307-310
SimpInstall(s, si, tag, lk) ==
  [s EXCEPT !.cache[si][TargetOf(lk)] =
              [valid |-> TRUE, tag |-> tag, lastUsed |-> s.timeCounter]]

\* lines 284-297, s with timeCounter already incremented
SimpLoad(c, s, si, tag, lk) ==
  IF lk.hit
  THEN [s EXCEPT !.stats.totalLoads = @ + 1, !.stats.loadHits = @ + 1,
                 !.stats.cycles = @ + 1]
  ELSE SimpInstall([s EXCEPT !.stats.totalLoads = @ + 1, !.stats.loadMisses = @ + 1,
                             !.stats.cycles = @ + 100 * (c.blockSize \div 4)],
                   si, tag, lk)

\* lines 298-313
SimpStore(c, s, si, tag, lk) ==
  IF lk.hit
  THEN [s EXCEPT !.stats.totalStores = @ + 1, !.stats.storeHits = @ + 1,
                 !.stats.cycles = @ + 1]
  ELSE LET s1 == [s EXCEPT !.stats.totalStores = @ + 1, !.stats.storeMisses = @ + 1,
                           !.stats.cycles = @ + 100 * (c.blockSize \div 4)]
       IN IF isWriteAlloc(c) THEN SimpInstall(s1, si, tag, lk) ELSE s1

\* one iteration of the while loop of line 256; the result carries the
\* locals of the scan in lk
SimpLoopBody(c, s, op, addr) ==
  LET si == SetIndexOf(c, addr)
      tag == TagOf(c, addr)
  IN \* the scan, bound once
     LET sc == SimpScan(s.cache[si], tag, c.blocksPerSet, 0, SimpScanStart,
                        useLRU(c), s.timeCounter)
         s1 == [cache |-> [s.cache EXCEPT ![si] = sc.set], stats |-> s.stats,
                timeCounter |-> s.timeCounter + 1]
         s2 == IF op = "l" THEN SimpLoad(c, s1, si, tag, sc.lk)
               ELSE IF op = "s" THEN SimpStore(c, s1, si, tag, sc.lk)
               ELSE s1
     IN [cache |-> s2.cache, stats |-> s2.stats, timeCounter |-> s2.timeCounter,
         lk |-> sc.lk]

\* s is the state before the iteration, r the result of SimpLoopBody
SimpObserve(c, s, op, addr, r) ==
  [op |-> op, addr |-> addr, setIndex |-> SetIndexOf(c, addr), tag |-> TagOf(c, addr),
   hit |-> r.lk.hit, target |-> IF r.lk.hit THEN -1 ELSE TargetOf(r.lk),
   before |-> s.cache, after |-> r.cache,
   statsBefore |-> s.stats, statsAfter |-> r.stats,
   cost |-> r.stats.cycles - s.stats.cycles, t |-> r.timeCounter]

(* ---------------- both mains side by side on one trace ---------------- *)
BothTrace == MaxTrace + 1
InitBoth == Init

\* both mains run the same validation (lines 35-50 and 227-238)
ValidateBoth ==
  /\ Construct
  /\ twin' = IF ConfigAccepted(cfg)
             THEN [twin EXCEPT !.cache = SimpNewCache(cfg)] ELSE twin

AccessBoth ==
  \E op \in Ops, addr \in Addrs :
    /\ Len(hist) < BothTrace
    /\ Step(op, addr)
    /\ LET s == [cache |-> twin.cache, stats |-> twin.stats, timeCounter |-> twin.timeCounter]
       IN \E r \in {SimpLoopBody(cfg, s, op, addr)} :
            twin' = [cache |-> r.cache, stats |-> r.stats, timeCounter |-> r.timeCounter,
                     hist |-> Append(twin.hist, SimpObserve(cfg, s, op, addr, r))]

FinishBoth == Emit /\ UNCHANGED twin

NextBoth == ValidateBoth \/ AccessBoth \/ FinishBoth

SpecBoth == InitBoth /\ [][NextBoth]_vars

(* ---------------- reading the observations ---------------- *)
Lines(set) == DOMAIN set
Resident(set, tag) == \E i \in Lines(set) : set[i].valid /\ set[i].tag = tag
Full(set) == \A i \in Lines(set) : set[i].valid
LineOf(set, tag) ==
  IF Resident(set, tag) THEN CHOOSE i \in Lines(set) : set[i].valid /\ set[i].tag = tag ELSE -1

SetBefore(e) == e.before[e.setIndex]
SetAfter(e) == e.after[e.setIndex]
\* the access found its block in the cache
WasHit(e) == Resident(SetBefore(e), e.tag)
\* the access did not find its block and the block is in the cache afterwards
WasInstall(e) == ~WasHit(e) /\ Resident(SetAfter(e), e.tag)
\* the line the access hit or installed into, -1 if none
Touched(e) == IF WasHit(e) THEN LineOf(SetBefore(e), e.tag) ELSE LineOf(SetAfter(e), e.tag)
\* the install overwrote a valid line
Evicts(e) == WasInstall(e) /\ Full(SetBefore(e))

Last == hist[Len(hist)]
Ran == Len(hist) > 0
N == cfg.blocksPerSet

Max0(S) == IF S = {} THEN 0 ELSE CHOOSE m \in S : \A x \in S : x <= m
\* position in h, before position k, of the latest access / latest install to line i of set si
LastAccessPos(h, k, si, i) ==
  Max0({j \in 1..(k - 1) : h[j].setIndex = si /\ Touched(h[j]) = i})
InstallPos(h, k, si, i) ==
  Max0({j \in 1..(k - 1) : h[j].setIndex = si /\ WasInstall(h[j]) /\ Touched(h[j]) = i})

(* ---------------- C1 ---------------- *)
\* C1: after every prefix of every trace, totalLoads = loadHits + loadMisses
\* and totalStores = storeHits + storeMisses.
C1_CountersAddUp ==
  /\ stats.totalLoads = stats.loadHits + stats.loadMisses
  /\ stats.totalStores = stats.storeHits + stats.storeMisses

C1_Witness ==
  /\ stats.loadHits > 0 /\ stats.loadMisses > 0
  /\ stats.storeHits > 0 /\ stats.storeMisses > 0

(* ---------------- C2 ---------------- *)
\* C2: under lru, a miss that allocates into a set without invalid line
\* overwrites the line whose most recent access (install or hit) is earlier
\* in the trace than the most recent access of every other line of the set.
C2_LruVictimIsLeastRecent ==
  (Ran /\ useLRU(cfg) /\ Evicts(Last)) =>
    LET k == Len(hist)
        si == Last.setIndex
        v == Touched(Last)
    IN \A i \in Lines(SetBefore(Last)) \ {v} :
         LastAccessPos(hist, k, si, v) < LastAccessPos(hist, k, si, i)

\* the victim is not the line installed first: a hit reordered the set
C2_Witness ==
  /\ Ran /\ useLRU(cfg) /\ Evicts(Last)
  /\ LET k == Len(hist)
         si == Last.setIndex
         v == Touched(Last)
     IN \E i \in Lines(SetBefore(Last)) \ {v} :
          InstallPos(hist, k, si, i) < InstallPos(hist, k, si, v)

(* ---------------- C3 ---------------- *)
\* position k is the most recent access (install or hit) of its tag in its set
MostRecentAccess(k) ==
  /\ Touched(hist[k]) # -1
  /\ \A j \in (k + 1)..Len(hist) :
       ~(hist[j].setIndex = hist[k].setIndex /\ hist[j].tag = hist[k].tag
         /\ Touched(hist[j]) # -1)
\* the other tags installed / accessed in the set of hist[k] after position k
InstalledSince(k) ==
  {hist[j].tag : j \in {j \in (k + 1)..Len(hist) :
       hist[j].setIndex = hist[k].setIndex /\ WasInstall(hist[j])}} \ {hist[k].tag}
AccessedSince(k) ==
  {hist[j].tag : j \in {j \in (k + 1)..Len(hist) :
       hist[j].setIndex = hist[k].setIndex /\ Touched(hist[j]) # -1}} \ {hist[k].tag}

\* C3 as stated: under lru, a tag whose most recent access was followed by at
\* most N-1 installs of distinct other tags into its set is still resident.
C3_AsStated ==
  useLRU(cfg) =>
    \A k \in 1..Len(hist) :
      (MostRecentAccess(k) /\ Cardinality(InstalledSince(k)) <= N - 1)
        => Resident(cache[hist[k].setIndex], hist[k].tag)

\* C3 amended: under lru, a tag whose most recent access was followed by
\* accesses (installs or hits) to at most N-1 distinct other tags of its set
\* is still resident.
C3_LruKeepsRecentlyAccessed ==
  useLRU(cfg) =>
    \A k \in 1..Len(hist) :
      (MostRecentAccess(k) /\ Cardinality(AccessedSince(k)) <= N - 1)
        => Resident(cache[hist[k].setIndex], hist[k].tag)

\* a hit made the oldest-installed tag survive the eviction that followed
C3_Witness ==
  /\ Ran /\ useLRU(cfg) /\ N = 2 /\ Evicts(Last)
  /\ \E k \in 1..Len(hist) :
       /\ WasHit(hist[k]) /\ MostRecentAccess(k)
       /\ hist[k].setIndex = Last.setIndex
       /\ Cardinality(AccessedSince(k)) = N - 1
       /\ Resident(cache[hist[k].setIndex], hist[k].tag)

(* ---------------- C4 ---------------- *)
\* installs into the set of hist[k] after position k, up to position j
InstallsBetween(k, j) ==
  {m \in (k + 1)..j : hist[m].setIndex = hist[k].setIndex /\ WasInstall(hist[m])}

\* C4: under fifo, a miss that allocates into a set without invalid line
\* overwrites the line installed earliest, whatever hits the lines received;
\* a tag installed into a set of N lines is overwritten by exactly the N-th
\* later install into that set.
C4_FifoVictimIsOldestInstall ==
  ~useLRU(cfg) =>
    /\ (Ran /\ Evicts(Last)) =>
         LET k == Len(hist)
             si == Last.setIndex
             v == Touched(Last)
         IN \A i \in Lines(SetBefore(Last)) \ {v} :
              InstallPos(hist, k, si, v) < InstallPos(hist, k, si, i)
    /\ \A k \in 1..Len(hist) :
         WasInstall(hist[k]) =>
           \A j \in InstallsBetween(k, Len(hist)) :
             Cardinality(InstallsBetween(k, j)) <= N =>
               ((Touched(hist[j]) = Touched(hist[k]))
                  <=> (Cardinality(InstallsBetween(k, j)) = N))

\* the victim was hit after its install and is evicted all the same
C4_Witness ==
  /\ Ran /\ ~useLRU(cfg) /\ N = 2 /\ Evicts(Last)
  /\ \E j \in 1..(Len(hist) - 1) :
       /\ WasHit(hist[j]) /\ hist[j].setIndex = Last.setIndex
       /\ Touched(hist[j]) = Touched(Last)
       /\ j > InstallPos(hist, Len(hist), Last.setIndex, Touched(Last))

(* ---------------- C5 ---------------- *)
NoHitIn(h) == \A k \in 1..Len(h) : ~WasHit(h[k])

\* C5: two runs on the same trace whose configurations differ only in the
\* eviction policy: while no access is a hit, both choose the same line at
\* every access and have identical cache contents and identical counters.
C5_NoHitsLruEqualsFifo ==
  (pc \in {"run", "done"} /\ (NoHitIn(hist) \/ NoHitIn(twin.hist))) =>
    /\ Len(twin.hist) = Len(hist)
    /\ \A k \in 1..Len(hist) :
         /\ twin.hist[k].target = hist[k].target
         /\ Touched(twin.hist[k]) = Touched(hist[k])
    /\ twin.cache = cache
    /\ twin.stats = stats
    /\ twin.timeCounter = timeCounter

\* both runs ended after a miss-only trace that filled a set and evicted from it
C5_Witness ==
  /\ pc = "done" /\ Ran /\ NoHitIn(hist) /\ N = 2
  /\ Evicts(Last) /\ Evicts(twin.hist[Len(twin.hist)])
  /\ twin.cache = cache

(* ---------------- C6 ---------------- *)
IsPositivePowerOfTwo(n) == n > 0 /\ \E k \in 0..n : n = Pow2(k)
IllegalConfig(c) ==
  \/ ~IsPositivePowerOfTwo(c.numSets)
  \/ ~IsPositivePowerOfTwo(c.blocksPerSet)
  \/ ~IsPositivePowerOfTwo(c.blockSize)
  \/ c.blockSize < 4
  \/ (c.writeAlloc = "no-write-allocate" /\ c.writePolicy = "write-back")

\* C6: every configuration with a size that is not a positive power of two,
\* or blockSize < 4, or no-write-allocate with write-back ends in the error
\* outcome: no cache built, no access processed, nothing written as statistics.
C6_IllegalConfigRejected ==
  (pc # "start" /\ IllegalConfig(cfg)) =>
    /\ pc = "error"
    /\ cache = <<>>
    /\ hist = <<>> /\ stats = ZeroStats /\ timeCounter = 0
    /\ output = <<>>

\* numSets = 3 alone makes the configuration illegal
C6_Witness ==
  /\ pc = "error"
  /\ cfg.numSets = 3 /\ cfg.blocksPerSet = 1 /\ cfg.blockSize = 4
  /\ cfg.writeAlloc = "write-allocate" /\ cfg.writePolicy = "write-back"

(* ---------------- C7 ---------------- *)
WriteBack == cfg.writePolicy = "write-back"
WriteThrough == cfg.writePolicy = "write-through"
BlockFetch == 100 * (cfg.blockSize \div 4)
\* the access overwrote a valid dirty line under write-back
DirtyEviction(e) == Evicts(e) /\ WriteBack /\ SetBefore(e)[Touched(e)].dirty

TraceIs(ops) ==
  /\ Len(hist) = Len(ops)
  /\ \A k \in 1..Len(ops) : hist[k].op = ops[k][1] /\ hist[k].addr = ops[k][2]
Geometry(ns, bps, bs) ==
  pc \in {"run", "done"} /\ cfg.numSets = ns /\ cfg.blocksPerSet = bps /\ cfg.blockSize = bs

\* C7: a load hit costs 1 cycle; a load miss costs 100*(blockSize/4)+1, plus
\* 100*(blockSize/4) only when a dirty line is evicted; after a load miss the
\* line holds the tag, is valid and clean, with lastUsed = timeCounter.
\* Scenario A: (1,1,4,write-allocate,write-back,lru), Load 0, Load 0 gives
\* loadMisses=1, loadHits=1, totalLoads=2, cycles=102.
C7_LoadCost ==
  /\ (Ran /\ Last.op = "l") =>
       IF WasHit(Last)
       THEN Last.cost = 1
       ELSE /\ \/ Last.cost = BlockFetch + 1
               \/ Last.cost = BlockFetch + 1 + BlockFetch /\ DirtyEviction(Last)
            /\ WasInstall(Last)
            /\ cache[Last.setIndex][Touched(Last)] =
                 [valid |-> TRUE, dirty |-> FALSE, tag |-> Last.tag, lastUsed |-> timeCounter]
  /\ (/\ Geometry(1, 1, 4) /\ isWriteAlloc(cfg) /\ WriteBack /\ useLRU(cfg)
      /\ TraceIs(<< <<"l", 0>>, <<"l", 0>> >>)) =>
       /\ stats.loadMisses = 1 /\ stats.loadHits = 1
       /\ stats.totalLoads = 2 /\ stats.cycles = 102

\* a load miss that evicts a dirty line of an 8-byte-block cache: 201 + 200
C7_Witness ==
  /\ Ran /\ Last.op = "l" /\ ~WasHit(Last) /\ DirtyEviction(Last)
  /\ cfg.blockSize = 8 /\ Last.cost = 401

(* ---------------- C8 ---------------- *)
\* C8: a store hit costs 101 under write-through (dirty bit unchanged) and 1
\* under write-back (line becomes dirty); a store miss under write-allocate
\* costs 100*(blockSize/4) plus 101 with a clean line (write-through) or 1
\* with a dirty line (write-back), plus the dirty-eviction penalty when it
\* applies.  Scenario B: (1,1,4,write-allocate,write-back), Store 0, Store 0
\* costs 101 then 1 and the line ends dirty; scenario C: the store miss
\* under write-allocate/write-through costs 201.
C8_StoreCost ==
  /\ (Ran /\ Last.op = "s" /\ WasHit(Last)) =>
       LET i == Touched(Last) IN
       /\ WriteThrough => /\ Last.cost = 101
                          /\ SetAfter(Last)[i].dirty = SetBefore(Last)[i].dirty
       /\ WriteBack => Last.cost = 1 /\ SetAfter(Last)[i].dirty
  /\ (Ran /\ Last.op = "s" /\ ~WasHit(Last) /\ isWriteAlloc(cfg)) =>
       LET base == BlockFetch + (IF WriteThrough THEN 101 ELSE 1) IN
       /\ \/ Last.cost = base
          \/ Last.cost = base + BlockFetch /\ DirtyEviction(Last)
       /\ WasInstall(Last)
       /\ SetAfter(Last)[Touched(Last)].dirty = WriteBack
  /\ (/\ Geometry(1, 1, 4) /\ isWriteAlloc(cfg) /\ WriteBack
      /\ TraceIs(<< <<"s", 0>>, <<"s", 0>> >>)) =>
       /\ hist[1].cost = 101 /\ hist[2].cost = 1 /\ stats.cycles = 102
       /\ stats.storeMisses = 1 /\ stats.storeHits = 1
       /\ cache[0][0].dirty
  /\ (/\ Geometry(1, 1, 4) /\ isWriteAlloc(cfg) /\ WriteThrough
      /\ TraceIs(<< <<"s", 0>> >>)) =>
       stats.cycles = 201

\* a write-through store hit on a cache of 8-byte blocks, after a
\* write-through store miss that cost 200 + 101
C8_Witness ==
  /\ Len(hist) >= 2 /\ Last.op = "s" /\ WasHit(Last) /\ WriteThrough
  /\ cfg.blockSize = 8 /\ Last.cost = 101
  /\ hist[Len(hist) - 1].op = "s" /\ WasInstall(hist[Len(hist) - 1])
  /\ hist[Len(hist) - 1].cost = 301

(* ---------------- C9 ---------------- *)
\* C9: under no-write-allocate a store miss increments storeMisses, costs
\* exactly 100 cycles and changes no line of any set; a load of the same
\* address right after it is a miss.
C9_NoAllocStoreMiss ==
  \A k \in 1..Len(hist) :
    (hist[k].op = "s" /\ ~WasHit(hist[k]) /\ ~isWriteAlloc(cfg)) =>
      /\ hist[k].statsAfter.storeMisses = hist[k].statsBefore.storeMisses + 1
      /\ hist[k].statsAfter.storeHits = hist[k].statsBefore.storeHits
      /\ hist[k].cost = 100
      /\ hist[k].after = hist[k].before
      /\ (k < Len(hist) /\ hist[k + 1].op = "l" /\ hist[k + 1].addr = hist[k].addr) =>
           /\ ~hist[k + 1].hit
           /\ hist[k + 1].statsAfter.loadMisses = hist[k + 1].statsBefore.loadMisses + 1
           /\ hist[k + 1].statsAfter.loadHits = hist[k + 1].statsBefore.loadHits

\* store miss on a cache of 8-byte blocks, then a load of the same address
C9_Witness ==
  /\ Len(hist) >= 2 /\ ~isWriteAlloc(cfg) /\ cfg.blockSize = 8
  /\ LET k == Len(hist) - 1 IN
       /\ hist[k].op = "s" /\ ~WasHit(hist[k]) /\ hist[k].cost = 100
       /\ Last.op = "l" /\ Last.addr = hist[k].addr /\ ~Last.hit

(* ---------------- C10 ---------------- *)
\* what an allocating miss costs without the write-back of a victim
MissBase(e) ==
  IF e.op = "l" THEN BlockFetch + 1
  ELSE BlockFetch + (IF WriteThrough THEN 101 ELSE 1)
AllocatingMiss(e) == ~WasHit(e) /\ (e.op = "l" \/ isWriteAlloc(cfg))

\* C10: on every allocating miss the extra 100*(blockSize/4) cycles are added
\* if and only if the set has no invalid line, the policy is write-back and
\* the overwritten line is dirty; never on an install into an invalid line,
\* never under write-through.
C10_PenaltyIffDirtyEviction ==
  (Ran /\ AllocatingMiss(Last)) =>
    /\ WasInstall(Last)
    /\ Last.cost - MissBase(Last) \in {0, BlockFetch}
    /\ (Last.cost - MissBase(Last) = BlockFetch) <=>
         (/\ Full(SetBefore(Last))
          /\ WriteBack
          /\ SetBefore(Last)[Touched(Last)].dirty)
    /\ (~Full(SetBefore(Last)) \/ WriteThrough) => Last.cost = MissBase(Last)

\* under write-back a clean line is evicted next to a dirty one: no penalty
C10_Witness ==
  /\ Ran /\ AllocatingMiss(Last) /\ Evicts(Last) /\ WriteBack
  /\ ~SetBefore(Last)[Touched(Last)].dirty
  /\ \E i \in Lines(SetBefore(Last)) : SetBefore(Last)[i].dirty
  /\ Last.cost = MissBase(Last)

(* ---------------- C11 ---------------- *)
StatFields == {"totalLoads", "totalStores", "loadHits", "loadMisses",
               "storeHits", "storeMisses", "cycles"}

\* C11: no processed access decreases a counter: each of the seven fields is
\* after the access at least what it was before, and the cycles contributed
\* by the access are not negative.
C11_StatsNeverDecrease ==
  Ran =>
    /\ \A f \in StatFields : Last.statsAfter[f] >= Last.statsBefore[f]
    /\ Last.cost >= 0
    /\ Last.cost = Last.statsAfter.cycles - Last.statsBefore.cycles
    /\ Len(hist) > 1 => Last.statsBefore = hist[Len(hist) - 1].statsAfter
    /\ stats = Last.statsAfter

\* hits and misses of both kinds were counted and cycles grew at every access
C11_Witness ==
  /\ Len(hist) >= 4
  /\ stats.loadHits > 0 /\ stats.storeMisses > 0
  /\ \A k \in 1..Len(hist) : hist[k].cost > 0
  /\ stats.cycles > hist[1].cost

(* ---------------- C12 ---------------- *)
\* the run ended normally and printed counters that account for the trace
EndedWithStats ==
  /\ pc = "done"
  /\ Len(output) = 7
  /\ output[1] + output[2] = Len(hist)
  /\ output[1] = Cardinality({k \in 1..Len(hist) : hist[k].op = "l"})
  /\ output[2] = Cardinality({k \in 1..Len(hist) : hist[k].op = "s"})

\* C12: with a legal configuration the run never ends in the error state and
\* eventually ends having printed the counters, with totalLoads + totalStores
\* equal to the number of trace lines read.  (The error and the done state
\* have no successor, so leading to the done state excludes the error state.)
C12_RunsToCompletion == (~IllegalConfig(cfg)) ~> EndedWithStats

C12_Witness ==
  /\ EndedWithStats /\ ~IllegalConfig(cfg)
  /\ Len(hist) >= 2 /\ output[1] > 0 /\ output[2] > 0

(* ---------------- C13 ---------------- *)
TwinRan == Len(twin.hist) > 0
TwinLast == twin.hist[Len(twin.hist)]

\* C13: in the second main under lru, a miss that allocates into a set
\* without invalid line overwrites the line whose most recent install or hit
\* is the earliest in the trace.
C13_SimpLruVictimIsLeastRecent ==
  (TwinRan /\ useLRU(cfg) /\ Evicts(TwinLast)) =>
    LET k == Len(twin.hist)
        si == TwinLast.setIndex
        v == Touched(TwinLast)
    IN \A i \in Lines(SetBefore(TwinLast)) \ {v} :
         LastAccessPos(twin.hist, k, si, v) < LastAccessPos(twin.hist, k, si, i)

(* ---------------- C20 ---------------- *)
HitMissCounters(st) == <<st.totalLoads, st.totalStores, st.loadHits, st.loadMisses,
                         st.storeHits, st.storeMisses>>

\* C20: run on the same legal configuration and the same trace, the two mains
\* classify every access the same way (hit or miss) and so have equal
\* totalLoads, totalStores, loadHits, loadMisses, storeHits and storeMisses.
C20_SameClassification ==
  pc \in {"run", "done"} =>
    /\ Len(twin.hist) = Len(hist)
    /\ \A k \in 1..Len(hist) : WasHit(twin.hist[k]) = WasHit(hist[k])
    /\ HitMissCounters(twin.stats) = HitMissCounters(stats)

(* ---------------- C14 ---------------- *)
\* C14: in every reachable state no two valid lines of one set hold the same
\* tag, so a lookup matches at most one line.
C14_TagsUniquePerSet ==
  \A si \in DOMAIN cache :
    \A i, j \in Lines(cache[si]) :
      (cache[si][i].valid /\ cache[si][j].valid /\ cache[si][i].tag = cache[si][j].tag)
        => i = j

\* a hit on the second line of a full two-line set
C14_Witness ==
  /\ Ran /\ N = 2 /\ WasHit(Last) /\ Touched(Last) = 1
  /\ Full(cache[Last.setIndex])
  /\ cache[Last.setIndex][0].tag # cache[Last.setIndex][1].tag

(* ---------------- C15 ---------------- *)
MinOf(S) == CHOOSE m \in S : \A x \in S : m <= x
InvalidLines(set) == {i \in Lines(set) : ~set[i].valid}
OldestLines(set) == {i \in Lines(set) : \A j \in Lines(set) : set[i].lastUsed <= set[j].lastUsed}
ExpectedTarget(set) ==
  IF InvalidLines(set) # {} THEN MinOf(InvalidLines(set)) ELSE MinOf(OldestLines(set))

\* C15: an allocating miss installs into the lowest-index invalid line of the
\* addressed set if there is one, otherwise into the line of minimum lastUsed,
\* the lowest index among equals; no valid line is overwritten while the set
\* has an invalid line.
C15_InsertionTarget ==
  (Ran /\ AllocatingMiss(Last)) =>
    /\ WasInstall(Last)
    /\ Touched(Last) = ExpectedTarget(SetBefore(Last))
    /\ \A i \in Lines(SetBefore(Last)) :
         (SetBefore(Last)[i].valid /\ SetAfter(Last)[i] # SetBefore(Last)[i])
           => Full(SetBefore(Last))

\* the first install into an empty two-line set goes to line 0, the second to line 1
C15_Witness ==
  /\ Len(hist) >= 2 /\ N = 2
  /\ AllocatingMiss(Last) /\ Touched(Last) = 1
  /\ InvalidLines(SetBefore(Last)) = {1}
  /\ LET p == hist[Len(hist) - 1] IN
       /\ AllocatingMiss(p) /\ p.setIndex = Last.setIndex
       /\ InvalidLines(SetBefore(p)) = {0, 1} /\ Touched(p) = 0

(* ---------------- C16 ---------------- *)
AllLines(c) == UNION {{<<si, i>> : i \in Lines(c[si])} : si \in DOMAIN c}

\* C16: lastUsed is written only by an install and by a hit under lru, always
\* with the current timeCounter, which counts the accesses: a hit under fifo
\* leaves every lastUsed unchanged, a hit under lru changes the lastUsed of
\* the hit line only, and no lastUsed ever decreases.
C16_RecencyDiscipline ==
  /\ pc \in {"run", "done"} => timeCounter = Len(hist)
  /\ Ran =>
       /\ Last.t = timeCounter
       /\ \A p \in AllLines(Last.before) :
            LET old == Last.before[p[1]][p[2]].lastUsed
                new == Last.after[p[1]][p[2]].lastUsed
            IN /\ new >= old
               /\ new # old =>
                    /\ p[1] = Last.setIndex /\ p[2] = Touched(Last)
                    /\ new = Last.t
                    /\ WasInstall(Last) \/ (WasHit(Last) /\ useLRU(cfg))
       /\ (WasHit(Last) /\ useLRU(cfg)) => SetAfter(Last)[Touched(Last)].lastUsed = Last.t
       /\ WasInstall(Last) => SetAfter(Last)[Touched(Last)].lastUsed = Last.t

\* the same address three times on a one-line cache under lru
C16_Witness ==
  /\ Geometry(1, 1, 4) /\ useLRU(cfg) /\ Len(hist) = 3
  /\ WasInstall(hist[1]) /\ WasHit(hist[2]) /\ WasHit(hist[3])
  /\ hist[2].after[0][0].lastUsed = 2 /\ cache[0][0].lastUsed = 3

(* ---------------- C18 ---------------- *)
\* a store wrote line i of set si at or after the install that put its block there
StoredSinceInstall(si, i) ==
  \E j \in InstallPos(hist, Len(hist) + 1, si, i)..Len(hist) :
    /\ j >= 1 /\ hist[j].setIndex = si /\ Touched(hist[j]) = i /\ hist[j].op = "s"

\* C18: every dirty line is valid; under write-through no line is dirty and no
\* miss is charged the write-back penalty; under write-back a valid line is
\* dirty exactly when a store (hit, or the miss that installed it) wrote it
\* since it was last installed.
C18_DirtyBit ==
  /\ \A p \in AllLines(cache) :
       LET line == cache[p[1]][p[2]] IN
       /\ line.dirty => line.valid
       /\ WriteThrough => ~line.dirty
       /\ (WriteBack /\ line.valid) => (line.dirty <=> StoredSinceInstall(p[1], p[2]))
  /\ (WriteThrough /\ Ran /\ AllocatingMiss(Last)) => Last.cost = MissBase(Last)

\* under write-back a load miss replaced a dirty line by a clean one, next to
\* a line made dirty by a store hit
C18_Witness ==
  /\ Ran /\ WriteBack /\ N = 2 /\ Last.op = "l" /\ DirtyEviction(Last)
  /\ ~cache[Last.setIndex][Touched(Last)].dirty
  /\ \E j \in 1..Len(hist) :
       /\ hist[j].op = "s" /\ WasHit(hist[j]) /\ hist[j].setIndex = Last.setIndex
       /\ Touched(hist[j]) # Touched(Last)
       /\ cache[Last.setIndex][Touched(hist[j])].dirty

(* ---------------- C19 ---------------- *)
AddressedSet(e) == (e.addr \div cfg.blockSize) % cfg.numSets
Changed(e) == {p \in AllLines(e.before) : e.after[p[1]][p[2]] # e.before[p[1]][p[2]]}

\* C19: an access changes at most one line, and that line is in the set its
\* address selects; no line goes from valid to invalid; a load hit under fifo
\* changes no line.
C19_OneLineOfOneSet ==
  Ran =>
    /\ DOMAIN Last.after = DOMAIN Last.before
    /\ \A si \in DOMAIN Last.before : DOMAIN Last.after[si] = DOMAIN Last.before[si]
    /\ \E ch \in {Changed(Last)} :
         /\ Cardinality(ch) <= 1
         /\ \A p \in ch : p[1] = AddressedSet(Last)
         /\ (Last.op = "l" /\ WasHit(Last) /\ ~useLRU(cfg)) => ch = {}
    /\ \A p \in AllLines(Last.before) :
         Last.before[p[1]][p[2]].valid => Last.after[p[1]][p[2]].valid
    /\ cache = Last.after

\* an install into set 1 of a two-set cache whose set 0 holds a block
C19_Witness ==
  /\ Ran /\ cfg.numSets = 2 /\ AddressedSet(Last) = 1
  /\ Cardinality(Changed(Last)) = 1
  /\ \E i \in Lines(cache[0]) : cache[0][i].valid /\ Last.before[0][i] = cache[0][i]

(* ---------------- C17 ---------------- *)
BlockOf(a) == a \div cfg.blockSize

\* C17: for every legal geometry and every address of the range, setIndex is
\* in 0..numSets-1, setIndex = (address div blockSize) mod numSets and
\* tag = address div (blockSize*numSets); two addresses have the same
\* (setIndex, tag) exactly when they lie in the same block.
C17_AddressDecomposition ==
  /\ \A k \in 1..Len(hist) :
       /\ hist[k].setIndex \in 0..(cfg.numSets - 1)
       /\ hist[k].setIndex = BlockOf(hist[k].addr) % cfg.numSets
       /\ hist[k].tag = hist[k].addr \div (cfg.blockSize * cfg.numSets)
  /\ \A j, k \in 1..Len(hist) :
       (hist[j].setIndex = hist[k].setIndex /\ hist[j].tag = hist[k].tag)
         <=> (BlockOf(hist[j].addr) = BlockOf(hist[k].addr))

\* two different byte addresses of one 8-byte block, set index 1 and tag 2:
\* the second load hits the block the first one installed
C17_Witness ==
  /\ Len(hist) = 2 /\ cfg.numSets = 2 /\ cfg.blockSize = 8
  /\ hist[1].addr # hist[2].addr
  /\ hist[1].setIndex = 1 /\ hist[1].tag = 2
  /\ hist[2].setIndex = 1 /\ hist[2].tag = 2
  /\ WasHit(hist[2])

====
